---- MODULE Spec2Model ----
(***************************************************************************)
(* A model of PatentDataCleaner (src/uspto_data_cleaning.py): the record   *)
(* extractor, the patent normalizer, the classification join and the       *)
(* corporate aggregation, with the Python and pandas behaviour the code    *)
(* relies on (dict.get, exceptions, explode, CSV type inference, merges).  *)
(*                                                                         *)
(* Values of the parsed XML tree are tagged records:                       *)
(*   Null          None / NaN / NaT (pandas treats them alike as missing), *)
(*   Str(s)        a text, s a sequence of one-character strings,          *)
(*   Dict(f)       a dict, f a function from keys to values,               *)
(*   List(q)       a list,                                                 *)
(*   Raise(e)      the outcome "exception e propagated".                   *)
(***************************************************************************)
EXTENDS Integers, Sequences, FiniteSets, TLC

VARIABLES
    pc,               \* position of the run
    xml_dict,         \* process_xml_files: the parsed tree of the file at hand
    records,          \* process_xml_files: result of _extract_record
    patent,           \* process_xml_files: result of _unnest_patent
    patent_df,        \* process_xml_files: the frame written by to_csv
    raw_name,         \* a firm name as it stands in the crosswalk and in the XML
    assg_name,        \* merge_with_corporate_data: crosswalk join key of raw_name
    patent_assignees, \* merge_with_corporate_data: dataset join key of raw_name
    uspatent,         \* self.uspatent_path: file name -> parsed XML tree or CSV frame
    cpc_tsv,          \* g_cpc_current.tsv as read_csv returns it
    uspc_tsv,         \* g_uspc_at_issue.tsv as read_csv returns it
    green_csv,        \* column cpc_group of OECD_ENV_Tech_Patent_Group.csv
    gcpd_txt,         \* GCPD_granular_data.txt as read_csv returns it
    start_date,       \* self.start_date
    end_date,         \* self.end_date
    merged,           \* merge_with_classification: file -> frame after the two merges
    processed_data,   \* self.processed_data
    patent_corporate, \* patent_corporate.csv
    patent_number,    \* patent_aggregate.csv
    exc               \* the exception that ended run_pipeline, if any

fileVars == <<xml_dict, records, patent, patent_df>>
nameVars == <<raw_name, assg_name, patent_assignees>>
inputVars == <<cpc_tsv, uspc_tsv, green_csv, gcpd_txt, start_date, end_date>>
pipeVars == <<uspatent, inputVars, merged, processed_data, patent_corporate, patent_number, exc>>
vars == <<pc, fileVars, nameVars, pipeVars>>

---------------------------------------------------------------------------
(* Bounds of the enumerated inputs *)
MaxRecords == 2      \* patent-assignment objects in one file
MaxNames == 2        \* repeated patent-assignee / patent-assignor elements
MaxDocs == 2         \* repeated document-id elements of one property
MaxNameLen == 4      \* length of an enumerated firm name

---------------------------------------------------------------------------
(* Python values *)
Null == [t |-> "null"]
Str(s) == [t |-> "str", s |-> s]
Dict(f) == [t |-> "dict", d |-> f]
List(q) == [t |-> "list", l |-> q]
Raise(e) == [t |-> "raise", e |-> e]
DF(rows) == [t |-> "df", rows |-> rows]
EmptyDict == Dict(<<>>)
EmptyList == List(<<>>)
NotRun == [t |-> "notrun"]

IsRaise(v) == v.t = "raise"

\* v.get(key, default): AttributeError when v has no method get
Get(v, key, default) ==
    IF v.t = "raise" THEN v
    ELSE IF v.t = "dict"
         THEN IF key \in DOMAIN v.d THEN v.d[key] ELSE default
         ELSE Raise("AttributeError")

\* bool(v) of an object cell
Truthy(v) ==
    CASE v.t = "null" -> FALSE
      [] v.t = "str" -> v.s # <<>>
      [] v.t = "dict" -> DOMAIN v.d # {}
      [] v.t = "list" -> v.l # <<>>

\* x if isinstance(x, list) else [x]
WrapList(v) == IF v.t = "list" THEN v.l ELSE <<v>>

SeqsOf(S, lo, hi) == UNION {[1..n -> S] : n \in lo..hi}

RECURSIVE Flatten(_)
Flatten(ss) == IF ss = <<>> THEN <<>> ELSE Head(ss) \o Flatten(Tail(ss))

\* pd.to_datetime('YYYY-MM-DD'), and a parsed cell of a date column
Timestamp(y, m, d) == [t |-> "date", y |-> y, m |-> m, d |-> d]

\* the variables a run does not touch
FileIdle == xml_dict = Null /\ records = NotRun /\ patent = NotRun /\ patent_df = NotRun
NamesIdle == raw_name = <<>> /\ assg_name = NotRun /\ patent_assignees = NotRun
PipelineIdle ==
    /\ uspatent = <<>>
    /\ cpc_tsv = <<>> /\ uspc_tsv = <<>> /\ green_csv = <<>> /\ gcpd_txt = <<>>
    /\ start_date = Null /\ end_date = Null
    /\ merged = NotRun /\ processed_data = NotRun
    /\ patent_corporate = NotRun /\ patent_number = NotRun
    /\ exc = Null

---------------------------------------------------------------------------
(* Texts *)
IsSpace(c) == c \in {" ", "\t"}
UpperChars ==
    <<"A", "B", "C", "D", "E", "F", "G", "H", "I", "J", "K", "L", "M",
      "N", "O", "P", "Q", "R", "S", "T", "U", "V", "W", "X", "Y", "Z">>
LowerChars ==
    <<"a", "b", "c", "d", "e", "f", "g", "h", "i", "j", "k", "l", "m",
      "n", "o", "p", "q", "r", "s", "t", "u", "v", "w", "x", "y", "z">>
Digits == <<"0", "1", "2", "3", "4", "5", "6", "7", "8", "9">>

\* the characters that \w matches
IsWord(c) ==
    \/ \E i \in 1..Len(UpperChars) : c \in {UpperChars[i], LowerChars[i]}
    \/ \E i \in 1..Len(Digits) : c = Digits[i]
    \/ c = "_"

LowerChar(c) ==
    IF \E i \in 1..Len(UpperChars) : c = UpperChars[i]
    THEN LowerChars[CHOOSE i \in 1..Len(UpperChars) : c = UpperChars[i]]
    ELSE c

\* str.lower
Lower(s) == [i \in 1..Len(s) |-> LowerChar(s[i])]

\* re.sub(r'\\', '', x)
StripBackslash(s) == SelectSeq(s, LAMBDA c : c # "\\")

RECURSIVE DropSpaces(_)
DropSpaces(s) == IF s # <<>> /\ IsSpace(Head(s)) THEN DropSpaces(Tail(s)) ELSE s

\* re.sub(r'\s+', ' ', x)
RECURSIVE CollapseSpaces(_)
CollapseSpaces(s) ==
    IF s = <<>> THEN <<>>
    ELSE IF IsSpace(Head(s)) THEN <<" ">> \o CollapseSpaces(DropSpaces(Tail(s)))
    ELSE <<Head(s)>> \o CollapseSpaces(Tail(s))

\* .str.replace(r'[^\w\s]', ' ', regex=True): character by character
ReplacePunct(s) ==
    [i \in 1..Len(s) |-> IF IsWord(s[i]) \/ IsSpace(s[i]) THEN s[i] ELSE " "]

---------------------------------------------------------------------------
(* _extract_record *)
ExtractFields(record) ==
    LET ar == Get(record, "assignment-record", EmptyDict) IN
    [ reel_no |-> Get(ar, "reel-no", Null),
      frame_no |-> Get(ar, "frame-no", Null),
      last_update_date |-> Get(Get(ar, "last-update-date", EmptyDict), "date", Null),
      purge_indicator |-> Get(ar, "purge-indicator", Null),
      recorded_date |-> Get(Get(ar, "recorded-date", EmptyDict), "date", Null),
      patent_assignors |-> Get(Get(record, "patent-assignors", EmptyDict), "patent-assignor", Null),
      patent_assignees |-> Get(Get(record, "patent-assignees", EmptyDict), "patent-assignee", Null),
      patent_properties |-> Get(Get(record, "patent-properties", EmptyDict), "patent-property", Null) ]

FieldRaises(r) == \E f \in DOMAIN r : IsRaise(r[f])

_extract_record(xml) ==
    LET assignment_data ==
            Get(Get(Get(xml, "us-patent-assignments", EmptyDict),
                    "patent-assignments", EmptyDict),
                "patent-assignment", EmptyList)
    IN  IF IsRaise(assignment_data) THEN assignment_data
        ELSE LET lst == WrapList(assignment_data)
                 rows == [i \in 1..Len(lst) |-> ExtractFields(lst[i])]
             IN  IF \E i \in 1..Len(lst) : FieldRaises(rows[i])
                 THEN Raise("AttributeError")
                 ELSE DF(rows)

---------------------------------------------------------------------------
(* _unnest_patent *)

\* the try/except around [d['name'] for d in v]
ResolveNames(v) ==
    IF v.t = "list"
    THEN IF \A i \in 1..Len(v.l) : v.l[i].t = "dict" /\ "name" \in DOMAIN v.l[i].d
         THEN List([i \in 1..Len(v.l) |-> v.l[i].d["name"]])
         ELSE Null
    ELSE IF v.t = "dict"
         THEN IF DOMAIN v.d = {} THEN EmptyList
              ELSE IF "name" \in DOMAIN v.d THEN List(<<v.d["name"]>>)
              ELSE Raise("KeyError")
    ELSE IF v.t = "str" /\ v.s = <<>> THEN EmptyList
    ELSE Null

ItemRaises(prop_item) == Truthy(prop_item) /\ prop_item.t # "dict"

DocsOfItem(prop_item) ==
    IF ~Truthy(prop_item) \/ prop_item.t # "dict" THEN <<>>
    ELSE LET doc_ids == WrapList(Get(prop_item, "document-id", EmptyList))
             dicts == SelectSeq(doc_ids, LAMBDA doc : doc.t = "dict")
         IN  [i \in 1..Len(dicts) |->
                 [doc_num |-> Get(dicts[i], "doc-number", Null),
                  doc_kind |-> Get(dicts[i], "kind", Null)]]

PatentDocuments(cell) ==
    LET properties == WrapList(cell)
    IN  Flatten([i \in 1..Len(properties) |-> DocsOfItem(properties[i])])

UnnestRow(row) ==
    LET assignors == ResolveNames(row.patent_assignors)
        assignees == ResolveNames(row.patent_assignees)
        properties == WrapList(row.patent_properties)
        docs == PatentDocuments(row.patent_properties)
    IN  IF IsRaise(assignors) THEN assignors
        ELSE IF IsRaise(assignees) THEN assignees
        ELSE IF \E i \in 1..Len(properties) : ItemRaises(properties[i])
             THEN Raise("AttributeError")
        ELSE DF([i \in 1..Len(docs) |->
                    [reel_no |-> row.reel_no,
                     frame_no |-> row.frame_no,
                     last_update_date |-> row.last_update_date,
                     recorded_date |-> row.recorded_date,
                     purge_indicator |-> row.purge_indicator,
                     patent_assignors |-> assignors,
                     patent_assignees |-> assignees,
                     patent_documents |-> docs[i]]])

_unnest_patent(recs) ==
    LET per == [i \in 1..Len(recs.rows) |-> UnnestRow(recs.rows[i])]
    IN  IF \E i \in 1..Len(per) : IsRaise(per[i])
        THEN per[CHOOSE i \in 1..Len(per) :
                    IsRaise(per[i]) /\ \A j \in 1..(i - 1) : ~IsRaise(per[j])]
        ELSE DF(Flatten([i \in 1..Len(per) |-> per[i].rows]))

---------------------------------------------------------------------------
(* process_xml_files, lines 110-122: the frame that to_csv writes *)

\* [name.lower() for name in x] if isinstance(x, list) else np.nan
LowerNames(v) ==
    IF v.t = "list"
    THEN IF \A i \in 1..Len(v.l) : v.l[i].t = "str"
         THEN List([i \in 1..Len(v.l) |-> Str(Lower(v.l[i].s))])
         ELSE Raise("AttributeError")
    ELSE Null

CleanName(s) == CollapseSpaces(StripBackslash(s))

\* explode('patent_assignees').dropna(subset=['patent_assignees']) of one row
ExplodeRow(row) ==
    LET names == IF row.patent_assignees.t = "list"
                 THEN SelectSeq(row.patent_assignees.l, LAMBDA n : n.t # "null")
                 ELSE <<>>
    IN  [i \in 1..Len(names) |->
            [reel_no |-> row.reel_no,
             frame_no |-> row.frame_no,
             last_update_date |-> row.last_update_date,
             recorded_date |-> row.recorded_date,
             purge_indicator |-> row.purge_indicator,
             patent_assignors |-> row.patent_assignors,
             patent_doc_num |-> row.patent_doc_num,
             patent_doc_kind |-> row.patent_doc_kind,
             patent_assignees |-> Str(CleanName(names[i].s))]]

NormalizeFrame(pat) ==
    LET withdoc == [i \in 1..Len(pat.rows) |->
                      [reel_no |-> pat.rows[i].reel_no,
                       frame_no |-> pat.rows[i].frame_no,
                       last_update_date |-> pat.rows[i].last_update_date,
                       recorded_date |-> pat.rows[i].recorded_date,
                       purge_indicator |-> pat.rows[i].purge_indicator,
                       patent_assignors |-> pat.rows[i].patent_assignors,
                       patent_assignees |-> pat.rows[i].patent_assignees,
                       patent_doc_num |-> pat.rows[i].patent_documents.doc_num,
                       patent_doc_kind |-> pat.rows[i].patent_documents.doc_kind]]
        kept == SelectSeq(withdoc, LAMBDA r :
                    r.patent_doc_kind # Str(<<"X", "0">>) /\ r.patent_assignees.t # "null")
        lowered == [i \in 1..Len(kept) |->
                      [kept[i] EXCEPT !.patent_assignors = LowerNames(@),
                                      !.patent_assignees = LowerNames(@)]]
    IN  IF \E i \in 1..Len(kept) :
               IsRaise(lowered[i].patent_assignors) \/ IsRaise(lowered[i].patent_assignees)
        THEN Raise("AttributeError")
        ELSE DF(Flatten([i \in 1..Len(lowered) |-> ExplodeRow(lowered[i])]))

---------------------------------------------------------------------------
(* The parsed trees xmltodict can hand to _extract_record: an element without
   children and without text parses as None, one child as the child's value,
   a repeated child as a list of two or more values. *)
Absent == [t |-> "absent"]
Opt(key, v) == IF v = Absent THEN <<>> ELSE key :> v
MkDict(f) == IF DOMAIN f = {} THEN Null ELSE Dict(f)

T_ACME == <<"A", "c", "m", "e", " ", "C", "o", "r", "p">>
T_BETA == <<"B", "e", "c", "o">>
T_DOC1 == <<"1", "2", "3", "4", "5", "6", "7">>
T_DOC2 == <<"7", "6", "5">>
T_DATE == <<"2", "0", "1", "0", "0", "6", "1", "5">>

DateElem(d) == Dict("date" :> Str(d))

AssignmentRecord(reel, upd, rec) ==
    MkDict(Opt("reel-no", reel) @@ Opt("frame-no", Str(<<"2">>))
           @@ Opt("last-update-date", upd) @@ Opt("purge-indicator", Str(<<"N">>))
           @@ Opt("recorded-date", rec))

StdRecord == AssignmentRecord(Str(<<"1">>), DateElem(T_DATE), DateElem(T_DATE))

NameObj(n) == Dict(("name" :> n) @@ ("city" :> Str(<<"X">>)))
Nameless == Dict("city" :> Str(<<"X">>))
NameObjs == {NameObj(Str(T_ACME)), NameObj(Str(T_BETA)), NameObj(Null), Nameless}

\* the value of patent-assignee / patent-assignor
NameVals ==
    {Null} \cup NameObjs
    \cup {List(q) : q \in SeqsOf(NameObjs \cup {Null}, 2, MaxNames)}

NameContainers(key) == {Absent, Null} \cup {Dict(key :> v) : v \in NameVals}

Doc(num, kind) == MkDict(Opt("doc-number", num) @@ Opt("kind", kind))
Docs == {Doc(Str(T_DOC1), Str(<<"B", "2">>)), Doc(Str(T_DOC2), Str(<<"X", "0">>)),
         Doc(Str(T_DOC2), Absent)}

\* the value of document-id
DocVals ==
    {Null} \cup Docs \cup {List(q) : q \in SeqsOf(Docs \cup {Null}, 2, MaxDocs)}

PropItems == {Dict("document-id" :> v) : v \in DocVals}
             \cup {Dict("invention-title" :> Str(<<"X">>))}

\* the value of patent-property
PropVals ==
    {Null} \cup PropItems
    \cup {List(<<a, b>>) : a \in {Null, Dict("document-id" :> Doc(Str(T_DOC1), Str(<<"B", "2">>)))},
                           b \in PropItems}

PropContainers == {Absent, Null} \cup {Dict("patent-property" :> v) : v \in PropVals}

StdAssignees == Dict("patent-assignee" :> NameObj(Str(T_ACME)))
StdAssignors == Dict("patent-assignor" :> NameObj(Str(T_BETA)))
StdProperties == Dict("patent-property" :> Dict("document-id" :> Doc(Str(T_DOC1), Str(<<"B", "2">>))))

Assignment(ar, aors, aees, props) ==
    MkDict(Opt("assignment-record", ar) @@ Opt("patent-assignors", aors)
           @@ Opt("patent-assignees", aees) @@ Opt("patent-properties", props))

\* assignments that vary the assignment-record paths
RecordShapes ==
    {Assignment(ar, StdAssignors, aees, props) :
        ar \in {Absent, Null}
               \cup {AssignmentRecord(reel, upd, rec) :
                        reel \in {Absent, Null, Str(<<"1">>)},
                        upd \in {Absent, DateElem(T_DATE)},
                        rec \in {Absent, Null, DateElem(T_DATE)}},
        aees \in {Absent, Null, StdAssignees},
        props \in {Absent, Null, StdProperties}}

\* assignments that vary the assignor and assignee shapes
NameShapes ==
    {Assignment(StdRecord, aors, aees, StdProperties) :
        aors \in {Absent, StdAssignors, Dict("patent-assignor" :> Nameless),
                  Dict("patent-assignor" :> NameObj(Null))},
        aees \in NameContainers("patent-assignee")}

\* assignments that vary the property and document shapes
DocShapes ==
    {Assignment(StdRecord, Absent, StdAssignees, props) : props \in PropContainers}

Root(pa) ==
    Dict("us-patent-assignments" :>
            Dict(("action-key-code" :> Str(<<"N">>))
                 @@ ("patent-assignments" :> MkDict(Opt("patent-assignment", pa)))))

ListShapes ==
    {List(q) : q \in SeqsOf({Null, Assignment(StdRecord, Absent, StdAssignees, StdProperties),
                             Assignment(StdRecord, StdAssignors, StdAssignees, Absent),
                             Assignment(Absent, Absent, StdAssignees, StdProperties)},
                            2, MaxRecords)}

XmlTrees ==
    {Dict("us-patent-assignments" :> Null), Dict("html" :> Null),
     Dict("us-patent-assignments" :> Dict("action-key-code" :> Str(<<"N">>)))}
    \cup {Root(pa) : pa \in {Absent, Null} \cup RecordShapes \cup NameShapes
                             \cup DocShapes \cup ListShapes}

---------------------------------------------------------------------------
(* One file of the loop of process_xml_files, statement by statement *)

InitFile ==
    /\ pc = "parsed"
    /\ xml_dict \in XmlTrees
    /\ records = NotRun
    /\ patent = NotRun
    /\ patent_df = NotRun
    /\ NamesIdle
    /\ PipelineIdle

\* records = self._extract_record(xml_dict); if records.empty: continue
ExtractRecord ==
    /\ pc = "parsed"
    /\ records' = _extract_record(xml_dict)
    /\ pc' = IF IsRaise(records') THEN "raised"
             ELSE IF records'.rows = <<>> THEN "skipped" ELSE "extracted"
    /\ UNCHANGED <<xml_dict, patent, patent_df, nameVars, pipeVars>>

\* patent = self._unnest_patent(records); if patent.empty: continue
UnnestPatent ==
    /\ pc = "extracted"
    /\ patent' = _unnest_patent(records)
    /\ pc' = IF IsRaise(patent') THEN "raised"
             ELSE IF patent'.rows = <<>> THEN "skipped" ELSE "unnested"
    /\ UNCHANGED <<xml_dict, records, patent_df, nameVars, pipeVars>>

\* lines 110-125: filter, lowercase, explode, clean, to_csv
WriteCsv ==
    /\ pc = "unnested"
    /\ patent_df' = NormalizeFrame(patent)
    /\ pc' = IF IsRaise(patent_df') THEN "raised" ELSE "written"
    /\ UNCHANGED <<xml_dict, records, patent, nameVars, pipeVars>>

NextFile == ExtractRecord \/ UnnestPatent \/ WriteCsv

SpecFile == InitFile /\ [][NextFile]_vars

---------------------------------------------------------------------------
(* to_csv followed by read_csv, and astype(str) *)
Int64(n) == [t |-> "int", n |-> n]
Float64(n) == [t |-> "float", n |-> n]

T_NAN == <<"n", "a", "n">>
\* the lowercase texts among read_csv's default NA literals, and the empty field
NaTexts == {<<>>, T_NAN, <<"n", "u", "l", "l">>, <<"n", "/", "a">>}

IsDigit(c) == \E i \in 1..Len(Digits) : c = Digits[i]
IsDigits(s) == s # <<>> /\ \A i \in 1..Len(s) : IsDigit(s[i])
DigitVal(c) == CHOOSE n \in 0..9 : Digits[n + 1] = c

RECURSIVE ParseInt(_)
ParseInt(s) == IF s = <<>> THEN 0 ELSE 10 * ParseInt(SubSeq(s, 1, Len(s) - 1)) + DigitVal(s[Len(s)])

RECURSIVE ToDigits(_)
ToDigits(n) == IF n < 10 THEN <<Digits[n + 1]>> ELSE ToDigits(n \div 10) \o <<Digits[(n % 10) + 1]>>

\* a cell as the parser sees it: None, NaN and the NA literals are missing
CsvCell(v) == IF v.t = "str" /\ v.s \in NaTexts THEN Null ELSE v

\* read_csv infers one dtype per column: int64 when every field is a number,
\* float64 when some are missing, object otherwise
ReadCsvCell(column, v) ==
    LET cells == {CsvCell(c) : c \in column}
        texts == {c \in cells : c.t = "str"}
        numeric == \A c \in texts : IsDigits(c.s)
    IN  IF CsvCell(v).t # "str" \/ ~numeric THEN CsvCell(v)
        ELSE IF Null \in cells THEN Float64(ParseInt(v.s)) ELSE Int64(ParseInt(v.s))

ReadCsv(rows) ==
    [i \in 1..Len(rows) |->
        [f \in DOMAIN rows[i] |->
            ReadCsvCell({rows[k][f] : k \in 1..Len(rows)}, rows[i][f])]]

\* .astype(str) of one cell
AsTypeStr(v) ==
    CASE v.t = "int" -> ToDigits(v.n)
      [] v.t = "float" -> ToDigits(v.n) \o <<".", "0">>
      [] v.t = "null" -> T_NAN
      [] v.t = "str" -> v.s

---------------------------------------------------------------------------
(* The two sides of the join key of merge_with_corporate_data *)

\* line 157: the crosswalk's assg_name
CrosswalkKey(v) == IF v.t = "str" THEN Str(ReplacePunct(Lower(v.s))) ELSE v

\* line 159: the dataset's patent_assignees
AssigneeKey(v) == Str(ReplacePunct(AsTypeStr(v)))

\* a name of the XML on its way to line 159: lines 118-122, then the CSV
AssigneeCell(s) ==
    LET written == Str(CleanName(Lower(s)))
    IN  ReadCsvCell({written}, written)

NameAlphabet == {"A", "c", " ", ".", "\\"}

\* texts as xmltodict yields them: not empty, no blank at either end
RawNames ==
    {s \in SeqsOf(NameAlphabet, 1, MaxNameLen) : ~IsSpace(s[1]) /\ ~IsSpace(s[Len(s)])}

InitNames ==
    /\ pc = "names"
    /\ raw_name \in RawNames
    /\ assg_name = NotRun
    /\ patent_assignees = NotRun
    /\ FileIdle
    /\ PipelineIdle

NormalizeCrosswalk ==
    /\ pc = "names"
    /\ assg_name = NotRun
    /\ assg_name' = CrosswalkKey(Str(raw_name))
    /\ UNCHANGED <<pc, raw_name, patent_assignees, fileVars, pipeVars>>

NormalizeAssignee ==
    /\ pc = "names"
    /\ patent_assignees = NotRun
    /\ patent_assignees' = AssigneeKey(AssigneeCell(raw_name))
    /\ UNCHANGED <<pc, raw_name, assg_name, fileVars, pipeVars>>

NextNames == NormalizeCrosswalk \/ NormalizeAssignee

SpecNames == InitNames /\ [][NextNames]_vars

\* C2: the crosswalk side and the dataset side compute the same join key from
\* the same raw name, so equal raw names always match in the left join.
C2_SameKeyOnBothSides ==
    (assg_name # NotRun /\ patent_assignees # NotRun) => assg_name = patent_assignees

---------------------------------------------------------------------------
(* process_xml_files over the input directory *)
EXT_XML == <<".", "x", "m", "l">>
EXT_CSV == <<".", "c", "s", "v">>
PREFIX_AD == <<"a", "d">>

\* f.endswith(suffix), f.startswith(prefix)
EndsWith(f, suffix) ==
    Len(f) >= Len(suffix) /\ SubSeq(f, Len(f) - Len(suffix) + 1, Len(f)) = suffix
StartsWith(f, prefix) == Len(f) >= Len(prefix) /\ SubSeq(f, 1, Len(prefix)) = prefix

\* file[:-4] + '.csv'
CsvName(file) == SubSeq(file, 1, Len(file) - 4) \o EXT_CSV

\* os.listdir returns the names in an order of its own
Orders(S) == {q \in [1..Cardinality(S) -> S] : \A i, j \in DOMAIN q : i # j => q[i] # q[j]}

Skipped == [t |-> "skip"]

\* the body of the loop for one file: a raise, a continue, or the frame written
ProcessFile(tree) ==
    LET recs == _extract_record(tree)
    IN  IF IsRaise(recs) THEN recs
        ELSE IF recs.rows = <<>> THEN Skipped
        ELSE LET pat == _unnest_patent(recs)
             IN  IF IsRaise(pat) THEN pat
                 ELSE IF pat.rows = <<>> THEN Skipped
                 ELSE NormalizeFrame(pat)

RECURSIVE ProcessFiles(_, _)
ProcessFiles(dir, files) ==
    IF files = <<>> THEN [dir |-> dir, exc |-> Null]
    ELSE LET out == ProcessFile(dir[Head(files)])
         IN  IF IsRaise(out) THEN [dir |-> dir, exc |-> out]
             ELSE IF out = Skipped THEN ProcessFiles(dir, Tail(files))
             ELSE ProcessFiles((CsvName(Head(files)) :> out) @@ dir, Tail(files))

---------------------------------------------------------------------------
(* merge_with_classification *)

\* the elements of rows whose index satisfies Keep, in order
Pick(rows, Keep(_)) ==
    LET F[i \in 0..Len(rows)] ==
            IF i = 0 THEN <<>>
            ELSE IF Keep(i) THEN Append(F[i - 1], rows[i]) ELSE F[i - 1]
    IN  F[Len(rows)]

\* the same with keep='first'
DedupByIdKeepFirst(table) ==
    LET first == Pick(table, LAMBDA i :
                     \A j \in 1..(i - 1) : table[j].patent_id # table[i].patent_id)
    IN  [i \in 1..Len(first) |-> [first[i] EXCEPT !.patent_id = Str(AsTypeStr(@))]]

\* drop_duplicates(subset=['patent_id'], keep='last'), then astype(str)
DedupById(table) ==
    LET last == Pick(table, LAMBDA i :
                    \A j \in (i + 1)..Len(table) : table[j].patent_id # table[i].patent_id)
    IN  [i \in 1..Len(last) |-> [last[i] EXCEPT !.patent_id = Str(AsTypeStr(@))]]

\* drop_duplicates(): the first of equal rows stays
DropDuplicates(rows) ==
    Pick(rows, LAMBDA i : \A j \in 1..(i - 1) : rows[j] # rows[i])

\* merge(table, how='left', left_on='patent_doc_num', right_on='patent_id')
\* .drop('patent_id', axis=1), the table holding patent_id and column col
MergeClass(rows, table, col) ==
    Flatten([i \in 1..Len(rows) |->
        LET hits == SelectSeq(table, LAMBDA c : c.patent_id = rows[i].patent_doc_num)
        IN  IF hits = <<>> THEN <<(col :> Null) @@ rows[i]>>
            ELSE [k \in 1..Len(hits) |-> (col :> hits[k][col]) @@ rows[i]]])

\* lines 142-146 for one CSV
MergeFile(frame, cpc_class, uspc_class) ==
    LET read == ReadCsv(frame.rows)
        pat == [i \in 1..Len(read) |->
                  [read[i] EXCEPT !.patent_doc_num = Str(AsTypeStr(@))]]
    IN  MergeClass(MergeClass(pat, cpc_class, "cpc_group"), uspc_class, "uspc_subclass_id")

\* lines 147-148
ClassifiedRows(rows) ==
    DropDuplicates(SelectSeq(rows, LAMBDA r :
        r.cpc_group.t # "null" \/ r.uspc_subclass_id.t # "null"))

\* line 137
ClassificationFiles(dir) ==
    {f \in DOMAIN dir : EndsWith(f, EXT_CSV) /\ StartsWith(f, PREFIX_AD)}

---------------------------------------------------------------------------
(* merge_with_corporate_data *)

\* lines 156-157
PatentName(gcpd) ==
    LET pairs == DropDuplicates(gcpd)
    IN  [i \in 1..Len(pairs) |-> [pairs[i] EXCEPT !.assg_name = CrosswalkKey(@)]]

\* lines 159-160
MergeCorporate(rows, patent_name) ==
    Flatten([i \in 1..Len(rows) |->
        LET left == [rows[i] EXCEPT !.patent_assignees = AssigneeKey(@)]
            hits == SelectSeq(patent_name, LAMBDA n : n.assg_name = left.patent_assignees)
        IN  IF hits = <<>>
            THEN <<[assg_name |-> Null, gvkey |-> Null] @@ left>>
            ELSE [k \in 1..Len(hits) |->
                    [assg_name |-> hits[k].assg_name, gvkey |-> hits[k].gvkey] @@ left]])

---------------------------------------------------------------------------
(* finalize_and_aggregate *)
IsLeap(y) == (y % 4 = 0 /\ y % 100 # 0) \/ y % 400 = 0
DaysIn(y, m) ==
    IF m = 2 THEN (IF IsLeap(y) THEN 29 ELSE 28)
    ELSE IF m \in {4, 6, 9, 11} THEN 30 ELSE 31

\* pd.to_datetime(cell, format='%Y%m%d') of a numeric cell: NaT for a missing
\* one, ValueError for what is no date within the Timestamp range
ToDatetime(v) ==
    IF v.t = "null" THEN Null
    ELSE IF v.t \notin {"int", "float"} THEN Raise("ValueError")
    ELSE LET y == v.n \div 10000
             m == (v.n \div 100) % 100
             d == v.n % 100
         IN  IF y \in 1678..2261 /\ m \in 1..12 /\ d \in 1..DaysIn(y, m)
             THEN Timestamp(y, m, d)
             ELSE Raise("ValueError")

DateKey(ts) == ts.y * 10000 + ts.m * 100 + ts.d

\* a window that leaves out end_date itself
InWindowExclusive(ts, start, end) ==
    ts.t = "date" /\ DateKey(ts) < DateKey(end) /\ DateKey(ts) >= DateKey(start)

\* lines 184-185: comparisons with NaT are False
InWindow(ts, start, end) ==
    ts.t = "date" /\ DateKey(ts) <= DateKey(end) /\ DateKey(ts) >= DateKey(start)

\* line 181
IsGreen(row, green_class) ==
    IF \E i \in 1..Len(green_class) : green_class[i] = row.patent_cpc_group THEN 1 ELSE 0

\* lines 167-181: the renamed frame with its parsed dates and the green flag
CorporateRows(rows, green_class) ==
    LET matched == SelectSeq(rows, LAMBDA r : r.gvkey.t # "null")
        renamed == [i \in 1..Len(matched) |->
                      [patent_id |-> matched[i].patent_doc_num,
                       patent_kind |-> matched[i].patent_doc_kind,
                       assignee_name |-> matched[i].patent_assignees,
                       assignee_gvkey |-> matched[i].gvkey,
                       date_recorded |-> ToDatetime(matched[i].recorded_date),
                       date_last_update |-> ToDatetime(matched[i].last_update_date),
                       patent_cpc_group |-> matched[i].cpc_group,
                       patent_uspc_group |-> matched[i].uspc_subclass_id]]
    IN  [i \in 1..Len(renamed) |->
            [patent_is_green |-> IsGreen(renamed[i], green_class)] @@ renamed[i]]

Count(rows, Test(_)) == Cardinality({i \in 1..Len(rows) : Test(rows[i])})

RECURSIVE Gcd(_, _)
Gcd(a, b) == IF b = 0 THEN a ELSE Gcd(b, a % b)

\* green / total of a group, as a fraction in lowest terms
Ratio(green, total) ==
    [num |-> green \div Gcd(green, total), den |-> total \div Gcd(green, total)]

\* lines 199-204
Aggregate(df) ==
    LET KeyOf(r) == <<r.assignee_gvkey, r.assignee_name, r.year_recorded>>
        keys == {KeyOf(df[i]) : i \in 1..Len(df)}
    IN  {[assignee_gvkey |-> k[1], assignee_name |-> k[2], year |-> k[3],
          patent_num |-> Count(df, LAMBDA r : KeyOf(r) = k),
          patent_green_num |-> Count(df, LAMBDA r : KeyOf(r) = k /\ r.patent_is_green = 1),
          patent_green_total |->
              Ratio(Count(df, LAMBDA r : KeyOf(r) = k /\ r.patent_is_green = 1),
                    Count(df, LAMBDA r : KeyOf(r) = k))] : k \in keys}

---------------------------------------------------------------------------
(* run_pipeline: the four stages, each ending the run when it raises *)
ProcessXmlFiles ==
    /\ pc = "start"
    /\ \E files \in Orders({f \in DOMAIN uspatent : EndsWith(f, EXT_XML)}) :
          LET out == ProcessFiles(uspatent, files)
          IN  /\ uspatent' = out.dir
              /\ exc' = out.exc
              /\ pc' = IF IsRaise(out.exc) THEN "raised" ELSE "processed"
    /\ UNCHANGED <<fileVars, nameVars, inputVars, merged, processed_data,
                   patent_corporate, patent_number>>

MergeWithClassification ==
    /\ pc = "processed"
    /\ \E files \in Orders(ClassificationFiles(uspatent)) :
          LET cpc_class == DedupById(cpc_tsv)
              uspc_class == DedupById(uspc_tsv)
              joined == [f \in ClassificationFiles(uspatent) |->
                            MergeFile(uspatent[f], cpc_class, uspc_class)]
          IN  IF files = <<>>
              THEN \* pd.concat([]): "No objects to concatenate"
                   /\ exc' = Raise("ValueError")
                   /\ pc' = "raised"
                   /\ UNCHANGED <<merged, processed_data>>
              ELSE /\ merged' = [t |-> "frames", of |-> joined]
                   /\ processed_data' =
                         DF(Flatten([i \in 1..Len(files) |-> ClassifiedRows(joined[files[i]])]))
                   /\ pc' = "classified"
                   /\ UNCHANGED exc
    /\ UNCHANGED <<fileVars, nameVars, uspatent, inputVars, patent_corporate, patent_number>>

MergeWithCorporateData ==
    /\ pc = "classified"
    /\ processed_data' = DF(MergeCorporate(processed_data.rows, PatentName(gcpd_txt)))
    /\ pc' = "merged"
    /\ UNCHANGED <<fileVars, nameVars, uspatent, inputVars, merged, patent_corporate,
                   patent_number, exc>>

FinalizeAndAggregate ==
    /\ pc = "merged"
    /\ LET corporate == CorporateRows(processed_data.rows, green_csv)
           inwindow == SelectSeq(corporate, LAMBDA r :
                           InWindow(r.date_recorded, start_date, end_date))
           df == [i \in 1..Len(inwindow) |->
                    [year_recorded |-> inwindow[i].date_recorded.y] @@ inwindow[i]]
       IN  IF \E i \in 1..Len(corporate) :
                  IsRaise(corporate[i].date_recorded) \/ IsRaise(corporate[i].date_last_update)
           THEN /\ exc' = Raise("ValueError")
                /\ pc' = "raised"
                /\ UNCHANGED <<patent_corporate, patent_number>>
           ELSE /\ patent_corporate' = DF(df)
                /\ patent_number' = [t |-> "groups", rows |-> Aggregate(df)]
                /\ pc' = "done"
                /\ UNCHANGED exc
    /\ UNCHANGED <<fileVars, nameVars, uspatent, inputVars, merged, processed_data>>

Next ==
    \/ ProcessXmlFiles
    \/ MergeWithClassification
    \/ MergeWithCorporateData
    \/ FinalizeAndAggregate

---------------------------------------------------------------------------
(* Inputs of run_pipeline *)
MaxTable == 2        \* rows of an enumerated classification table
MaxFirms == 2        \* rows of an enumerated crosswalk

T_Y02E10 == <<"Y", "0", "2", "E", "1", "0">>
T_A01B == <<"A", "0", "1", "B">>
F_AD1 == <<"a", "d", "1">> \o EXT_XML
F_AD2 == <<"a", "d", "2">> \o EXT_XML
F_PA1 == <<"p", "a", "1">> \o EXT_XML
XmlNames == {F_AD1, F_AD2, F_PA1}

\* __init__'s default window (line 11) and the usage example's (lines 239-240)
Windows ==
    {<<Timestamp(2002, 1, 1), Timestamp(2023, 12, 31)>>,
     <<Timestamp(2010, 1, 1), Timestamp(2020, 12, 31)>>}

\* recorded dates on, next to and between the bounds of the windows
E2EDates == {ToDigits(n) : n \in {20011231, 20020101, 20100101, 20201231, 20231231, 20240101}}

BoundaryDates == {ToDigits(n) : n \in {20020101, 20231231, 20240101}}

\* one assignment to "Acme Corp" of document 1234567, kind B2
E2EAssignment(reel, date) ==
    Assignment(AssignmentRecord(Str(ToDigits(reel)), DateElem(date),
                                IF date = <<>> THEN Absent ELSE DateElem(date)),
               Absent,
               Dict("patent-assignee" :> Dict("name" :> Str(T_ACME))),
               Dict("patent-property" :>
                    Dict("document-id" :> Doc(Str(T_DOC1), Str(<<"B", "2">>)))))

\* a file of one assignment, or of several with their own reel numbers; an
\* empty date stands for an assignment without recorded-date
E2ETrees ==
    {Root(E2EAssignment(1, d)) : d \in E2EDates}
    \cup {Root(List([i \in 1..Len(q) |-> E2EAssignment(i, q[i])])) :
             q \in SeqsOf(BoundaryDates \cup {<<>>}, 2, MaxRecords)}

StdCpc == <<[patent_id |-> Int64(ParseInt(T_DOC1)), cpc_group |-> Str(T_Y02E10)]>>
StdGcpd == <<[assg_name |-> Str(T_ACME), gvkey |-> Int64(1001)]>>

NotYetRun ==
    /\ pc = "start"
    /\ FileIdle
    /\ NamesIdle
    /\ merged = NotRun /\ processed_data = NotRun
    /\ patent_corporate = NotRun /\ patent_number = NotRun
    /\ exc = Null

\* the end-to-end scenario, over file names, recorded dates and windows
InitE2E ==
    /\ NotYetRun
    /\ uspatent \in {f :> tree : f \in XmlNames, tree \in E2ETrees}
    /\ cpc_tsv = StdCpc
    /\ uspc_tsv = <<>>
    /\ green_csv = <<Str(T_Y02E10)>>
    /\ gcpd_txt \in {<<[assg_name |-> Str(n), gvkey |-> Int64(1001)]>> :
                        n \in {T_ACME, Lower(T_ACME), T_BETA}}
    /\ \E w \in Windows : start_date = w[1] /\ end_date = w[2]

SpecE2E == InitE2E /\ [][Next]_vars

\* files whose documents meet the classification tables in every way: a number,
\* a number with a leading zero, two documents, a document without a number
ClassTrees ==
    {Root(Assignment(StdRecord, Absent, StdAssignees,
                     Dict("patent-property" :> Dict("document-id" :> v)))) :
        v \in {Doc(Str(T_DOC1), Str(<<"B", "2">>)),
               Doc(Str(<<"0">> \o T_DOC2), Str(<<"B", "1">>)),
               List(<<Doc(Str(T_DOC1), Str(<<"B", "2">>)), Doc(Str(T_DOC2), Str(<<"B", "1">>))>>),
               List(<<Doc(Absent, Str(<<"B", "2">>)), Doc(Str(T_DOC2), Str(<<"B", "1">>))>>)}}

CpcRows ==
    {[patent_id |-> Int64(ParseInt(id)), cpc_group |-> Str(g)] :
        id \in {T_DOC1, T_DOC2}, g \in {T_Y02E10, T_A01B}}
UspcRows ==
    {[patent_id |-> Int64(ParseInt(T_DOC1)), uspc_subclass_id |-> Str(<<"2", "/", "1">>)],
     [patent_id |-> Int64(ParseInt(T_DOC2)), uspc_subclass_id |-> Str(<<"3", "/", "4">>)]}

InitClass ==
    /\ NotYetRun
    /\ uspatent \in {F_AD1 :> tree : tree \in ClassTrees}
    /\ cpc_tsv \in SeqsOf(CpcRows, 0, MaxTable)
    /\ uspc_tsv \in SeqsOf(UspcRows, 0, 1)
    /\ green_csv = <<Str(T_Y02E10)>>
    /\ gcpd_txt = StdGcpd
    /\ start_date = Timestamp(2002, 1, 1) /\ end_date = Timestamp(2023, 12, 31)

SpecClass == InitClass /\ [][Next]_vars

\* the directory before the run: one or two XML files, and possibly a CSV
\* that an earlier run left behind
DirTrees ==
    {Root(E2EAssignment(1, T_DATE)),
     Root(Assignment(StdRecord, StdAssignors, Dict("patent-assignee" :> NameObj(Str(T_BETA))),
                     StdProperties)),
     Root(Absent)}
XmlDirs ==
    {f :> tree : f \in XmlNames, tree \in DirTrees}
    \cup {(p[1] :> tree) @@ (p[2] :> other) :
             p \in {q \in XmlNames \X XmlNames : q[1] # q[2]},
             tree \in DirTrees, other \in DirTrees}
StaleCsv == NormalizeFrame(_unnest_patent(_extract_record(Root(E2EAssignment(7, T_DATE)))))
StaleDirs == {<<>>, CsvName(F_AD2) :> StaleCsv, (<<"a", "d", "0">> \o EXT_CSV) :> StaleCsv}

FirmRows ==
    {[assg_name |-> Str(T_ACME), gvkey |-> Int64(1001)],
     [assg_name |-> Str(Lower(T_ACME)), gvkey |-> Int64(1001)],
     [assg_name |-> Str(T_ACME \o <<".">>), gvkey |-> Int64(1002)],
     [assg_name |-> Str(T_BETA), gvkey |-> Int64(1003)]}

Init ==
    /\ NotYetRun
    /\ \E xmls \in XmlDirs, stale \in StaleDirs : uspatent = xmls @@ stale
    /\ cpc_tsv = StdCpc
    /\ uspc_tsv = <<>>
    /\ green_csv = <<Str(T_Y02E10)>>
    /\ gcpd_txt \in SeqsOf(FirmRows, 1, MaxFirms)
    /\ start_date = Timestamp(2002, 1, 1) /\ end_date = Timestamp(2023, 12, 31)

Spec == Init /\ [][Next]_vars

---------------------------------------------------------------------------
(* What the specification says of the extractor and the normalizer, stated
   without the code's means: a path resolves to null as soon as a segment is
   absent or holds no object. *)
RECURSIVE PathOrNull(_, _)
PathOrNull(v, path) ==
    IF path = <<>> THEN v
    ELSE IF v.t = "dict" /\ Head(path) \in DOMAIN v.d
         THEN PathOrNull(v.d[Head(path)], Tail(path))
         ELSE Null

RootPath == <<"us-patent-assignments", "patent-assignments", "patent-assignment">>

ExpectedRecord(obj) ==
    [ reel_no |-> PathOrNull(obj, <<"assignment-record", "reel-no">>),
      frame_no |-> PathOrNull(obj, <<"assignment-record", "frame-no">>),
      last_update_date |-> PathOrNull(obj, <<"assignment-record", "last-update-date", "date">>),
      purge_indicator |-> PathOrNull(obj, <<"assignment-record", "purge-indicator">>),
      recorded_date |-> PathOrNull(obj, <<"assignment-record", "recorded-date", "date">>),
      patent_assignors |-> PathOrNull(obj, <<"patent-assignors", "patent-assignor">>),
      patent_assignees |-> PathOrNull(obj, <<"patent-assignees", "patent-assignee">>),
      patent_properties |-> PathOrNull(obj, <<"patent-properties", "patent-property">>) ]

\* C3: _extract_record never raises; no root path gives no record, a single
\* object one record, a list of n objects n records, and every field whose
\* path misses a segment (absent, or present but empty) is null.
C3_ExtractNeverRaises ==
    records # NotRun =>
        /\ records.t = "df"
        /\ LET a == PathOrNull(xml_dict, RootPath)
               objs == WrapList(a)
           IN  /\ a.t = "null" => Len(records.rows) \in {0, 1}
               /\ a.t = "dict" => Len(records.rows) = 1
               /\ a.t = "list" => Len(records.rows) = Len(a.l)
               /\ \A i \in 1..Len(records.rows) : records.rows[i] = ExpectedRecord(objs[i])

NameBearing(o) == o.t = "dict" /\ "name" \in DOMAIN o.d /\ o.d["name"].t = "str"

ExpectedNames(v) ==
    IF v.t = "list" /\ \A i \in 1..Len(v.l) : NameBearing(v.l[i])
    THEN List([i \in 1..Len(v.l) |-> v.l[i].d["name"]])
    ELSE IF NameBearing(v) THEN List(<<v.d["name"]>>)
    ELSE Null

\* the document-id objects of a patent-properties cell, in order
ExpectedDocs(cell) ==
    LET items == WrapList(cell)
    IN  Flatten([i \in 1..Len(items) |->
            IF items[i].t = "dict" /\ "document-id" \in DOMAIN items[i].d
            THEN SelectSeq(WrapList(items[i].d["document-id"]), LAMBDA x : x.t = "dict")
            ELSE <<>>])

\* C4: every raw assignor / assignee value resolves without raising: a list of
\* name-bearing objects to the list of their names, one name-bearing object to
\* a one-element list, anything else to null; the row is then dropped or
\* carried forward, and neither _unnest_patent nor the lowercasing and explode
\* steps abort.
C4_NamesResolveWithoutRaising ==
    patent # NotRun =>
        /\ patent.t = "df"
        /\ LET expected ==
                   Flatten([i \in 1..Len(records.rows) |->
                       [j \in 1..Len(ExpectedDocs(records.rows[i].patent_properties)) |->
                           <<ExpectedNames(records.rows[i].patent_assignors),
                             ExpectedNames(records.rows[i].patent_assignees)>>]])
           IN  /\ Len(patent.rows) = Len(expected)
               /\ \A k \in 1..Len(expected) :
                     <<patent.rows[k].patent_assignors, patent.rows[k].patent_assignees>>
                         = expected[k]
        /\ patent_df # NotRun => patent_df.t = "df"

\* C5: _unnest_patent emits one row per document-id object of the record, each
\* carrying the record's five scalar fields and its resolved name lists, and a
\* record without document descriptors contributes no row and no error.
C5_OneRowPerDocument ==
    patent # NotRun =>
        /\ patent.t = "df"
        /\ LET expected ==
                   Flatten([i \in 1..Len(records.rows) |->
                       LET r == records.rows[i]
                           docs == ExpectedDocs(r.patent_properties)
                       IN  [j \in 1..Len(docs) |->
                               [reel_no |-> r.reel_no,
                                frame_no |-> r.frame_no,
                                last_update_date |-> r.last_update_date,
                                recorded_date |-> r.recorded_date,
                                purge_indicator |-> r.purge_indicator,
                                patent_assignors |-> ResolveNames(r.patent_assignors),
                                patent_assignees |-> ResolveNames(r.patent_assignees),
                                patent_documents |->
                                    [doc_num |-> PathOrNull(docs[j], <<"doc-number">>),
                                     doc_kind |-> PathOrNull(docs[j], <<"kind">>)]]]])
           IN  patent.rows = expected

---------------------------------------------------------------------------
(* Properties of run_pipeline *)
XmlFiles(dir) == {f \in DOMAIN dir : EndsWith(f, EXT_XML)}
T_acme_corp == <<"a", "c", "m", "e", " ", "c", "o", "r", "p">>
DigitsKey(d) == ParseInt(d)
WindowCovers(d) == DateKey(start_date) <= DigitsKey(d) /\ DigitsKey(d) <= DateKey(end_date)

\* the end-to-end scenario of the specification with source file f and recorded date d
E2EScenario(f, d) ==
    /\ XmlFiles(uspatent) = {f}
    /\ uspatent[f] = Root(E2EAssignment(1, d))
    /\ cpc_tsv = StdCpc
    /\ green_csv = <<Str(T_Y02E10)>>
    /\ Len(gcpd_txt) = 1
    /\ gcpd_txt[1].gvkey = Int64(1001)
    /\ Lower(gcpd_txt[1].assg_name.s) = T_acme_corp
    /\ WindowCovers(d)

E2EOutcome(d) ==
    /\ pc # "raised"
    /\ pc = "done" =>
          patent_number.rows =
              {[assignee_gvkey |-> Int64(1001), assignee_name |-> Str(T_acme_corp),
                year |-> DigitsKey(d) \div 10000, patent_num |-> 1,
                patent_green_num |-> 1, patent_green_total |-> [num |-> 1, den |-> 1]]}

\* C1 as stated: whatever the XML file is called, the scenario runs through
\* and the aggregate holds exactly the row (1001, year, 1, 1, 1.0).
C1_EndToEndAnyFile ==
    \A f \in XmlNames, d \in E2EDates : E2EScenario(f, d) => E2EOutcome(d)

\* C1 restricted to the files line 137 reads: for an XML file whose name
\* starts with "ad" the scenario runs through and the aggregate holds exactly
\* that row.
C1_EndToEndAdFile ==
    \A f \in XmlNames, d \in E2EDates :
        (E2EScenario(f, d) /\ StartsWith(f, PREFIX_AD)) => E2EOutcome(d)

\* the last row of a classification table whose id, as a string, is key
LastMatch(table, key, col) ==
    LET hits == {k \in 1..Len(table) : AsTypeStr(table[k].patent_id) = key}
    IN  IF hits = {} THEN Null
        ELSE table[CHOOSE k \in hits : \A j \in hits : j <= k][col]

C7_CombinedHasNoDuplicates ==
    (pc = "classified") =>
        \A i, j \in 1..Len(processed_data.rows) :
            i # j => processed_data.rows[i] # processed_data.rows[j]

\* C8: at the join of merge_with_corporate_data no two crosswalk rows share a
\* normalized firm name, and the join leaves the number of rows as it was.
C8_CrosswalkKeysUnique ==
    [][(pc = "classified" /\ pc' = "merged") =>
          /\ \A i, j \in 1..Len(PatentName(gcpd_txt)) :
                i # j => PatentName(gcpd_txt)[i].assg_name # PatentName(gcpd_txt)[j].assg_name
          /\ Len(processed_data'.rows) = Len(processed_data.rows)]_vars

\* C9: a firm-matched row is in patent_corporate and counted in
\* patent_aggregate exactly when start_date <= recorded_date <= end_date.
C9_WindowInclusive ==
    pc = "done" =>
        LET firm == SelectSeq(processed_data.rows, LAMBDA r : r.gvkey.t # "null")
            inside == SelectSeq(firm, LAMBDA r :
                          /\ r.recorded_date.t # "null"
                          /\ DateKey(start_date) <= r.recorded_date.n
                          /\ r.recorded_date.n <= DateKey(end_date))
        IN  /\ Len(patent_corporate.rows) = Len(inside)
            /\ \A i \in 1..Len(inside) :
                  /\ patent_corporate.rows[i].patent_id = inside[i].patent_doc_num
                  /\ DateKey(patent_corporate.rows[i].date_recorded) = inside[i].recorded_date.n
                  /\ \E g \in patent_number.rows :
                        /\ g.assignee_gvkey = inside[i].gvkey
                        /\ g.assignee_name = inside[i].patent_assignees
                        /\ g.year = inside[i].recorded_date.n \div 10000
            /\ \A g \in patent_number.rows :
                  g.patent_num = Count(inside, LAMBDA r :
                                     /\ r.gvkey = g.assignee_gvkey
                                     /\ r.patent_assignees = g.assignee_name
                                     /\ r.recorded_date.n \div 10000 = g.year)

\* a run that keeps a row recorded on end_date and drops a firm-matched row
\* recorded after it
C9_Witness ==
    /\ pc = "done"
    /\ \E i \in 1..Len(patent_corporate.rows) :
          DateKey(patent_corporate.rows[i].date_recorded) = DateKey(end_date)
    /\ \E i \in 1..Len(processed_data.rows) :
          /\ processed_data.rows[i].gvkey.t # "null"
          /\ processed_data.rows[i].recorded_date.t # "null"
          /\ processed_data.rows[i].recorded_date.n > DateKey(end_date)

\* C10: the combined dataset is built from the CSVs this run's
\* process_xml_files wrote, all of them and no other: every XML file that
\* yielded rows is read, and every CSV read was written for an XML file of
\* this run.
C10_CombinedFromThisRunsFiles ==
    pc = "classified" =>
        /\ \A f \in XmlFiles(uspatent) :
              ProcessFile(uspatent[f]).t = "df" => CsvName(f) \in DOMAIN merged.of
        /\ \A g \in DOMAIN merged.of :
              \E f \in XmlFiles(uspatent) :
                  CsvName(f) = g /\ ProcessFile(uspatent[f]).t = "df"

====
